---- MODULE Spec2Model ----
(***************************************************************************)
(* Model of main_denoising.py: the processify decorator (a function run    *)
(* in a child process, its result handed back over a queue), denoise_wav   *)
(* (chunked masking of one single-channel waveform) and main_denoising     *)
(* (the loop over the files of a batch).                                   *)
(*                                                                         *)
(* The main thread is a sequential program whose position is pc; the only  *)
(* concurrency is between the main thread, blocked in wrapper, and the     *)
(* child process running process_func.                                     *)
(***************************************************************************)
EXTENDS Integers, Sequences, FiniteSets, TLC

\* ------------------------------------------------------------ constants
SR == 16000
WL == 512
WL2Quarter == WL \div 4
WL2 == WL \div 2
NFREQS == 257

\* ------------------------------------------------------------ bounds
MaxFiles == 2          \* files in a batch: 1..MaxFiles
MaxChannels == 2       \* channels of an input file: 1..MaxChannels
MaxBlocks == 2         \* waveform lengths: around 0..MaxBlocks half windows
MaxTruncBlocks == 1    \* chunk sizes: around 1..MaxTruncBlocks half windows

\* truncate_minutes is the rational truncate_num / TruncateDen minutes, so
\* that truncate_minutes*rate*60 is truncate_num half samples.
TruncateDen == 2 * 60 * SR

TruncateNums ==
  {1} \cup {q * WL + r : q \in 1..MaxTruncBlocks, r \in -2..2}

Lengths ==
  {n \in {q * WL2 + r : q \in 0..MaxBlocks, r \in -1..1} : n >= 1}

\* ------------------------------------------------------------ helpers
Min(a, b) == IF a < b THEN a ELSE b

\* math.ceil(a / b) for a >= 0, b >= 1 (true division, then ceiling).
CeilDiv(a, b) == (a + b - 1) \div b

\* numpy slicing w[bi:ei] of a 1-d array: clipped to the array's length.
Slice(w, bi, ei) == SubSeq(w, bi + 1, Min(ei, Len(w)))

\* x.astype(np.int16) of an integer sample: reduction to 16 bits, signed.
ToInt16(x) == ((x + 32768) % 65536) - 32768

\* np.concatenate of a list of 1-d arrays.
ConcatenateSkipLast(l) ==
  LET f[k \in 0..Len(l)] == IF k = 0 THEN <<>> ELSE f[k - 1] \o l[k]
  IN f[Len(l) - 1]
Concatenate(l) ==
  LET f[k \in 0..Len(l)] == IF k = 0 THEN <<>> ELSE f[k - 1] \o l[k]
  IN f[Len(l)]

\* The peak-normalized waveform of n samples (lines 167-171): integer
\* samples in the signed 16-bit range whose largest magnitude is full scale.
Sample(k) ==
  CASE k % 4 = 1 -> 32767
    [] k % 4 = 2 -> -12000
    [] k % 4 = 3 -> 5
    [] OTHER     -> -32767
Waveform(n) == [k \in 1..n |-> Sample(k)]

\* int(truncate_minutes*rate*60): the product truncated to an integer.
ChunkLength(num, rate) == (num * rate * 60) \div TruncateDen

\* Index one past the last sample of the chunk starting at bi (line 183).
ChunkEndInclusive(bi, len) == bi + len + 1
ChunkEnd(bi, len) == bi + len

\* utils.wav2logspec: the number of analysis frames of a chunk of n samples
\* (window WL, hop WL2).
NumFrames(n) == (n \div WL2) + 1

\* utils.logspec2wav: samples recovered from the masked frames and the
\* chunk's own phase; as many samples as the chunk has.
Logspec2wav(gain, chunk) ==
  [k \in 1..Len(chunk) |-> IF gain = "unit" THEN chunk[k] ELSE chunk[k] \div 2]

\* numpy broadcasting of frames (rows x NFREQS) + log(irm): the shapes are
\* compatible when each dimension agrees or one of the two is 1.
Broadcastable(rows, shape) ==
  /\ (shape[1] = rows \/ shape[1] = 1 \/ rows = 1)
  /\ (shape[2] = NFREQS \/ shape[2] = 1)

\* What decode_model may leave in irm.mat for a request of `rows` frames.
IrmFiles(rows) ==
  {[shape |-> s, gain |-> g] :
     s \in {<<rows, NFREQS>>, <<1, NFREQS>>, <<rows + 1, NFREQS>>, <<rows, NFREQS - 1>>},
     g \in {"half"}}

\* Exception classes func may raise; the second takes five constructor
\* arguments, so ex_type(message) is itself a TypeError.
ExTypes == {"RuntimeError", "UnicodeDecodeError"}
Construct(ex_type, message) ==
  IF ex_type = "UnicodeDecodeError"
    THEN [type |-> "TypeError", msg |-> <<"function takes exactly 5 arguments">>]
    ELSE [type |-> ex_type, msg |-> message]

\* '%s (in subprocess)\n%s' % (ex_value, tb_str)
Message(ex_value, tb_str) == <<ex_value, " (in subprocess)\n", tb_str>>

\* The main thread's pending exception; NoError when there is none.
NoError == [type |-> "none", msg |-> <<>>]

\* The (ret, error) pairs of the queue. error is None or the triple
\* (ex_type, ex_value, traceback text).
None == [type |-> "none", value |-> "", tb |-> ""]
NoItem == [ret |-> "unset", error |-> None]
Absent == [shape |-> <<0, 0>>, gain |-> "absent"]
NotApplied == [rows |-> 0, shape |-> <<0, 0>>]

\* Process(target=process_func, ...): a new process for every call.
ReusePid(ws) == IF ws = <<>> THEN 1 ELSE Len(ws)
NewPid(ws) == Len(ws) + 1

\* wrapper, lines 119-120: q.get() is followed by p.join().
AfterGetSkipJoin == "finish"
AfterGet == "join"

\* ------------------------------------------------------------ state
VARIABLES
  truncate_num,   \* kwargs: truncate_minutes = truncate_num / TruncateDen
  wav_files,      \* the batch: a sequence of file ids
  fidx,           \* position in wav_files of src_wav_file
  pc,             \* control point of the main thread
  channels,       \* channels of the current file
  ch,             \* channels of the current file already denoised
  nsamples,       \* samples per channel of the current file
  tempoutdir,     \* the denoised channel files written for the current file
  output_dir,     \* files whose merged, enhanced WAV has been written
  reported,       \* files reported through utils.error
  failed,         \* files whose processing raised or was abandoned
  raised,         \* the exception propagating in the main thread
  wav_data, chunk_length, total_chunks, i, temp, data_se,   \* denoise_wav
  frames,         \* rows of noisy_htkdata
  irm_file,       \* tmp_dir/irm.mat: Absent or [shape, gain]
  q,              \* the multiprocessing Queue of the current call
  p,              \* the Process of the current call (index into workers)
  got,            \* (ret, error) taken from q
  workers,        \* history: the Processes created during this denoise_wav
                  \* call, each [state, served (runs of process_func)]
  calls,          \* history: the chunks of this denoise_wav call sent to decode_model
  taken,          \* history: <<bi, end>> of every chunk taken from wav_data
  failed_chunk,   \* history: chunk of this denoise_wav call that raised, or 0
  applied         \* history: the shapes frames + log(irm) was evaluated on for this chunk

batchVars == <<truncate_num, wav_files, fidx, channels, nsamples,
               output_dir, reported, failed>>
chanVars == <<ch, tempoutdir>>
loopVars == <<wav_data, chunk_length, total_chunks>>
chunkVars == <<temp, data_se, frames, taken, applied>>
excVars == <<raised, failed_chunk>>
procVars == <<q, p, got, workers, calls>>
vars == <<pc, i, irm_file, batchVars, chanVars, loopVars, chunkVars, excVars,
          procVars>>

Init ==
  /\ truncate_num \in TruncateNums
  /\ wav_files \in {[k \in 1..n |-> k] : n \in 1..MaxFiles}
  /\ fidx = 1
  /\ pc = "for_file"
  /\ channels = 0 /\ ch = 0 /\ nsamples = 0
  /\ tempoutdir = <<>>
  /\ output_dir = {} /\ reported = {} /\ failed = {}
  /\ raised = NoError
  /\ wav_data = <<>> /\ chunk_length = 0 /\ total_chunks = 0 /\ i = 0
  /\ temp = <<>> /\ data_se = <<>> /\ frames = 0
  /\ irm_file = Absent
  /\ q = <<>> /\ p = 0 /\ got = NoItem
  /\ workers = <<>> /\ calls = <<>>
  /\ taken = <<>> /\ failed_chunk = 0
  /\ applied = NotApplied

src_wav_file == wav_files[fidx]

\* ------------------------------------------------------------ main_denoising

\* Lines 266-303: the checks of one input file. A missing file, a failed
\* conversion attempt and an invalid channel layout raise out of
\* main_denoising; a conversion whose ffmpeg run returns non-zero makes
\* main_denoising return.
ForFile ==
  /\ pc = "for_file" /\ fidx <= Len(wav_files)
  /\ \E outcome \in {"ok", "missing", "convert_raised", "no_channels",
                      "convert_failed"} :
       \E c \in 1..MaxChannels :
         /\ (outcome # "ok") => (c = 1)
         /\ IF outcome = "ok"
              THEN /\ channels' = c
                   /\ pc' = "split"
                   /\ UNCHANGED <<raised, failed>>
              ELSE /\ channels' = channels
                   /\ failed' = failed \cup {src_wav_file}
                   /\ IF outcome = "convert_failed"
                        THEN pc' = "returned" /\ raised' = raised
                        ELSE /\ pc' = "raised"
                             /\ raised' = [type |-> "Exception", msg |-> <<outcome>>]
  /\ UNCHANGED <<truncate_num, wav_files, fidx, nsamples, output_dir, reported,
                 failed_chunk, i, irm_file, chanVars, loopVars, chunkVars,
                 procVars>>

\* Line 266: the loop over wav_files is exhausted; main_denoising returns.
ForFileEnd ==
  /\ pc = "for_file" /\ fidx > Len(wav_files)
  /\ pc' = "returned"
  /\ UNCHANGED <<i, irm_file, batchVars, chanVars, loopVars, chunkVars,
                 excVars, procVars>>

\* Lines 305-318: ffmpeg splits the file into one 16 kHz file per channel,
\* each of the same length; a non-zero return code returns from
\* main_denoising.
Split ==
  /\ pc = "split"
  /\ \E ok \in BOOLEAN, n \in Lengths :
       /\ (~ok) => (n = 1)
       /\ IF ok
            THEN /\ nsamples' = n /\ ch' = 0 /\ tempoutdir' = <<>>
                 /\ pc' = "for_channel"
                 /\ failed' = failed
            ELSE /\ pc' = "returned"
                 /\ failed' = failed \cup {src_wav_file}
                 /\ UNCHANGED <<nsamples, ch, tempoutdir>>
  /\ UNCHANGED <<truncate_num, wav_files, fidx, channels, output_dir, reported,
                 i, irm_file, loopVars, chunkVars, excVars, procVars>>

\* Lines 321-325: the next channel file is handed to denoise_wav, or the
\* loop over the channel files ends.
ForChannel ==
  /\ pc = "for_channel"
  /\ pc' = IF ch < channels THEN "load" ELSE "merge"
  /\ UNCHANGED <<i, irm_file, batchVars, chanVars, loopVars, chunkVars,
                 excVars, procVars>>

\* Lines 327-330: an exception of denoise_wav is reported and raised again.
Except ==
  /\ pc = "except"
  /\ reported' = reported \cup {src_wav_file}
  /\ failed' = failed \cup {src_wav_file}
  /\ pc' = "raised"
  /\ UNCHANGED <<truncate_num, wav_files, fidx, channels, nsamples, output_dir,
                 i, irm_file, chanVars, loopVars, chunkVars, excVars, procVars>>

\* Lines 332-346: ffmpeg joins the denoised channels into the file of the
\* output directory; the temporary directories are removed on the way out.
Merge ==
  /\ pc = "merge"
  /\ \E ok \in BOOLEAN :
       IF ok
         THEN /\ output_dir' = output_dir \cup {src_wav_file}
              /\ fidx' = fidx + 1
              /\ pc' = "for_file"
              /\ failed' = failed
         ELSE /\ pc' = "returned"
              /\ failed' = failed \cup {src_wav_file}
              /\ UNCHANGED <<output_dir, fidx>>
  /\ tempoutdir' = <<>>
  /\ UNCHANGED <<truncate_num, wav_files, channels, nsamples, reported, ch,
                 i, irm_file, loopVars, chunkVars, excVars, procVars>>

\* ------------------------------------------------------------ denoise_wav

\* An exception raised in the body of the chunk loop (lines 180-232) passes
\* the finally clause and leaves denoise_wav: the loop does not go on.
AbortChunkContinue(ex) ==
  /\ pc' = "for_chunk"
  /\ raised' = ex
  /\ failed_chunk' = i
  /\ i' = i + 1
AbortChunk(ex) ==
  /\ pc' = "except"
  /\ raised' = ex
  /\ failed_chunk' = i
  /\ i' = i

\* Lines 167-177: the channel file is loaded (its rate is SR, as written by
\* the split) and peak-normalized, and the chunking is set up. A chunk
\* length of 0 makes the division of line 176 raise ZeroDivisionError.
Load ==
  /\ pc = "load"
  /\ wav_data' = Waveform(nsamples)
  /\ chunk_length' = ChunkLength(truncate_num, SR)
  /\ failed_chunk' = 0
  /\ taken' = <<>> /\ calls' = <<>>
  /\ data_se' = <<>>
  /\ temp' = <<>> /\ frames' = 0 /\ applied' = NotApplied
  /\ IF chunk_length' = 0
       THEN /\ pc' = "except"
            /\ raised' = [type |-> "ZeroDivisionError", msg |-> <<"division by zero">>]
            /\ total_chunks' = 0 /\ i' = 0
       ELSE /\ total_chunks' = CeilDiv(Len(wav_data'), chunk_length')
            /\ i' = 1
            /\ pc' = "for_chunk"
            /\ raised' = raised
  /\ workers' = <<>> /\ p' = 0
  /\ UNCHANGED <<irm_file, batchVars, chanVars, q, got>>

\* Lines 178-214: chunk i is cut out of wav_data; a chunk shorter than WL2
\* is appended as it is, a longer one has its features extracted for the
\* call of decode_model.
TakeChunk ==
  /\ pc = "for_chunk" /\ i <= total_chunks
  /\ LET bi == (i - 1) * chunk_length
         ei == ChunkEnd(bi, chunk_length)
         chunk == Slice(wav_data, bi, ei)
     IN /\ temp' = chunk
        /\ taken' = Append(taken, <<bi, bi + Len(chunk)>>)
        /\ applied' = NotApplied
        /\ IF Len(chunk) < WL2
             THEN /\ data_se' = Append(data_se, chunk)
                  /\ i' = i + 1
                  /\ pc' = "for_chunk"
                  /\ frames' = 0
             ELSE /\ frames' = NumFrames(Len(chunk))
                  /\ pc' = "call"
                  /\ UNCHANGED <<data_se, i>>
  /\ UNCHANGED <<irm_file, batchVars, chanVars, loopVars, excVars, procVars>>

\* Lines 179-214: a step of the chunk body other than the mask request
\* fails (the temporary directory or the feature files cannot be written).
ChunkIOError ==
  /\ pc = "call"
  /\ AbortChunk([type |-> "IOError", msg |-> <<"tmp_dir">>])
  /\ UNCHANGED <<irm_file, batchVars, chanVars, loopVars, chunkVars, procVars>>

\* Lines 223-232: irm.mat is read and added, in the log domain, to the
\* frames; numpy broadcasts the two arrays or raises ValueError. The masked
\* frames are turned back into samples and appended. tmp_dir is removed.
Mask ==
  /\ pc = "mask"
  /\ IF irm_file = Absent
       THEN /\ AbortChunk([type |-> "IOError", msg |-> <<"irm.mat">>])
            /\ UNCHANGED <<data_se, applied>>
       ELSE IF ~Broadcastable(frames, irm_file.shape)
         THEN /\ AbortChunk([type |-> "ValueError", msg |-> <<"broadcast">>])
              /\ UNCHANGED <<data_se, applied>>
         ELSE /\ applied' = [rows |-> frames, shape |-> irm_file.shape]
              /\ data_se' = Append(data_se, Logspec2wav(irm_file.gain, temp))
              /\ i' = i + 1
              /\ pc' = "for_chunk"
              /\ UNCHANGED <<raised, failed_chunk>>
  /\ irm_file' = Absent
  /\ UNCHANGED <<temp, frames, taken, batchVars, chanVars, loopVars, procVars>>

\* Lines 233-235 and 326: after the last chunk the chunk outputs are cast
\* to int16, concatenated and written to dest_wav_file; denoise_wav returns.
Write ==
  /\ pc = "for_chunk" /\ i > total_chunks
  /\ tempoutdir' =
       Append(tempoutdir,
              Concatenate([k \in 1..Len(data_se) |->
                             [j \in 1..Len(data_se[k]) |-> ToInt16(data_se[k][j])]]))
  /\ ch' = ch + 1
  /\ pc' = "for_channel"
  /\ UNCHANGED <<i, irm_file, batchVars, loopVars, chunkVars, excVars, procVars>>

\* ------------------------------------------------------------ processify

\* wrapper, lines 116-118: a queue and a process are created for this call
\* and the process is started.
WrapperStart ==
  /\ pc = "call"
  /\ q' = <<>>
  /\ got' = NoItem
  /\ calls' = Append(calls, i)
  /\ LET pid == NewPid(workers)
         w == [state |-> "running", served |-> 0]
     IN /\ p' = pid
        /\ workers' = IF pid > Len(workers)
                        THEN Append(workers, w)
                        ELSE [workers EXCEPT ![pid].state = "running"]
  /\ pc' = "get"
  /\ UNCHANGED <<i, irm_file, batchVars, chanVars, loopVars, chunkVars, excVars>>

\* process_func, lines 97-107, in the child: func runs; its return value, or
\* the type, value and trace of the Exception it raised, is put on the queue.
\* decode_model leaves the mask in tmp_dir/irm.mat.
ProcessFunc ==
  /\ p \in 1..Len(workers) /\ workers[p].state = "running"
  /\ \/ \E m \in IrmFiles(frames) \cup {Absent} :
          /\ irm_file' = m
          /\ q' = Append(q, [ret |-> "ret", error |-> None])
     \/ \E t \in ExTypes :
          /\ irm_file' = irm_file
          /\ q' = Append(q, [ret |-> "None",
                             error |-> [type |-> t, value |-> "ex_value",
                                        tb |-> "format_tb"]])
  /\ workers' = [workers EXCEPT ![p].state = "put",
                                ![p].served = workers[p].served + 1]
  /\ UNCHANGED <<pc, i, batchVars, chanVars, loopVars, chunkVars, excVars,
                 p, got, calls>>

\* The child ends before process_func reaches q.put: it is killed, or func
\* leaves through a BaseException that `except Exception` does not catch.
ProcessDies ==
  /\ p \in 1..Len(workers) /\ workers[p].state = "running"
  /\ workers' = [workers EXCEPT ![p].state = "exited",
                                ![p].served = workers[p].served + 1]
  /\ UNCHANGED <<pc, i, irm_file, batchVars, chanVars, loopVars, chunkVars,
                 excVars, q, p, got, calls>>

\* The child returns from process_func and exits.
ProcessExit ==
  /\ p \in 1..Len(workers) /\ workers[p].state = "put"
  /\ workers' = [workers EXCEPT ![p].state = "exited"]
  /\ UNCHANGED <<pc, i, irm_file, batchVars, chanVars, loopVars, chunkVars,
                 excVars, q, p, got, calls>>

\* wrapper, line 119: q.get() blocks until the queue holds an item.
WrapperGet ==
  /\ pc = "get" /\ q # <<>>
  /\ got' = Head(q)
  /\ q' = Tail(q)
  /\ pc' = AfterGet
  /\ UNCHANGED <<i, irm_file, batchVars, chanVars, loopVars, chunkVars,
                 excVars, p, workers, calls>>

\* wrapper, line 120: p.join() blocks until the child has exited.
WrapperJoin ==
  /\ pc = "join" /\ workers[p].state = "exited"
  /\ workers' = [workers EXCEPT ![p].state = "joined"]
  /\ pc' = "finish"
  /\ UNCHANGED <<i, irm_file, batchVars, chanVars, loopVars, chunkVars,
                 excVars, q, p, got, calls>>

\* wrapper, lines 122-127: the error, if any, is raised as
\* ex_type(message) and leaves the chunk body through its finally clause;
\* otherwise ret is returned to denoise_wav (line 220).
WrapperFinish ==
  /\ pc = "finish"
  /\ IF got.error # None
       THEN /\ AbortChunk(Construct(got.error.type,
                                    Message(got.error.value, got.error.tb)))
            /\ irm_file' = Absent
            /\ got' = got
       ELSE /\ pc' = "mask"
            /\ got' = NoItem
            /\ UNCHANGED <<raised, failed_chunk, i, irm_file>>
  /\ UNCHANGED <<batchVars, chanVars, loopVars, chunkVars, q, p, workers, calls>>

\* ------------------------------------------------------------ specification
Next ==
  \/ ForFile \/ ForFileEnd \/ Split \/ ForChannel \/ Except \/ Merge
  \/ Load \/ TakeChunk \/ ChunkIOError \/ Mask \/ Write
  \/ WrapperStart \/ ProcessFunc \/ ProcessDies \/ ProcessExit
  \/ WrapperGet \/ WrapperJoin \/ WrapperFinish

Spec == Init /\ [][Next]_vars

\* ------------------------------------------------------------ properties

\* A denoise_wav call has set up its chunking (line 176 did not raise).
Chunking == chunk_length >= 1
\* The chunk loop of the last denoise_wav call has run to its end.
LoopDone == Chunking /\ Len(taken) = total_chunks /\ i > total_chunks
\* The last denoise_wav call has written its destination file.
Written ==
  /\ pc \in {"for_channel", "load", "merge"}
  /\ ch >= 1 /\ Len(tempoutdir) = ch /\ LoopDone
ChunkLen(j) == taken[j][2] - taken[j][1]
InWrapper == pc \in {"get", "join", "finish"}

\* C1 as stated: with chunk_length the real number truncate_minutes*60*rate
\* there are ceil(N / chunk_length) chunks and every chunk but the last has
\* exactly chunk_length samples.
C1_AsStated ==
  LET a == truncate_num * 60 * SR
      b == TruncateDen
  IN Chunking =>
       /\ total_chunks = CeilDiv(Len(wav_data) * b, a)
       /\ \A j \in 1..Len(taken) :
            (j < total_chunks) => (ChunkLen(j) * b = a)

\* C1 amended: with chunk_length the integer part of
\* truncate_minutes*60*rate, at least 1, there are ceil(N / chunk_length)
\* chunks, chunk j is samples [(j-1)*chunk_length, j*chunk_length) clipped to
\* N, every chunk but the last has chunk_length samples, and the chunks in
\* ascending order cover every sample once, without gap or overlap.
C1_Partition ==
  Chunking =>
    LET N == Len(wav_data)
        a == truncate_num * 60 * SR
    IN /\ chunk_length * TruncateDen <= a
       /\ a < (chunk_length + 1) * TruncateDen
       /\ (total_chunks - 1) * chunk_length < N
       /\ N <= total_chunks * chunk_length
       /\ Len(taken) <= total_chunks
       /\ \A j \in 1..Len(taken) :
            /\ taken[j] = <<(j - 1) * chunk_length, Min(j * chunk_length, N)>>
            /\ taken[j][1] = (IF j = 1 THEN 0 ELSE taken[j - 1][2])
            /\ taken[j][1] < taken[j][2]
            /\ (j < total_chunks) => (ChunkLen(j) = chunk_length)
       /\ (Len(taken) >= 1) =>
            temp = [k \in 1..ChunkLen(Len(taken)) |->
                      wav_data[taken[Len(taken)][1] + k]]
       /\ LoopDone => (taken[total_chunks][2] = N)

\* C1 witness: a waveform cut into three chunks by a chunk length that is
\* the truncation of a non-integer product, the last chunk shorter.
C1_Witness ==
  /\ LoopDone /\ total_chunks = 3
  /\ truncate_num % 2 = 1
  /\ ChunkLen(3) < chunk_length
  /\ C1_Partition

\* C2: a failure while one file is processed does not end the batch: when
\* main_denoising is over, every file of the batch has its output or has
\* been processed and failed.
C2_ErrorIsolation ==
  (pc \in {"returned", "raised"}) =>
     \A f \in 1..Len(wav_files) : f \in output_dir \/ f \in failed

\* C3: when the wrapper has returned or raised, the process of the call has
\* exited and been joined; no process outlives its call, and none runs
\* process_func for more than one call.
C3_WorkerJoined ==
  /\ (~InWrapper) => \A w \in 1..Len(workers) : workers[w].state = "joined"
  /\ (pc = "finish") => workers[p].state = "joined"
  /\ \A w \in 1..Len(workers) : workers[w].served <= 1

\* C3 witness: a call that raised the worker's exception in the caller,
\* after a call that returned, both processes joined.
C3_Witness ==
  /\ pc = "except" /\ got.error # None
  /\ Len(workers) = 2
  /\ \A w \in 1..2 : workers[w].state = "joined" /\ workers[w].served = 1

\* C4 as stated: a chunk of fewer than 257 samples is never sent to the
\* mask worker.
C4_AsStated ==
  \A j \in 1..Len(taken) :
    (ChunkLen(j) < 257) => (\A c \in 1..Len(calls) : calls[c] # j)

\* C4 amended: a chunk of fewer than 256 samples (half of the window length
\* 512) is never sent to the mask worker, and its samples are appended and
\* written exactly as they are in the waveform.
C4_PassThrough ==
  Chunking =>
    \A j \in 1..Len(taken) :
      (ChunkLen(j) < 256) =>
        /\ \A c \in 1..Len(calls) : calls[c] # j
        /\ (pc \in {"call", "get", "join", "finish", "mask"}) => (j < i)
        /\ j <= Len(data_se)
        /\ data_se[j] = [k \in 1..ChunkLen(j) |-> wav_data[taken[j][1] + k]]
        /\ Written =>
             \A k \in 1..ChunkLen(j) :
               tempoutdir[ch][taken[j][1] + k] = wav_data[taken[j][1] + k]

\* C4 witness: a written file with a chunk of 255 samples passed through
\* and a chunk of 256 samples that was sent to the mask worker.
C4_Witness ==
  /\ Written
  /\ \E j \in 1..Len(taken) : ChunkLen(j) = 255
  /\ \E c \in 1..Len(calls) : ChunkLen(calls[c]) = 256

\* C5: an exception raised in the worker reaches the caller as an exception
\* of the same type, whose message is the original value followed by the
\* worker's trace.
C5_TypePreserved ==
  (pc \in {"except", "raised"} /\ got.error # None) =>
     /\ raised.type = got.error.type
     /\ raised.msg = <<got.error.value, " (in subprocess)\n", got.error.tb>>

\* C6: a mask is applied to the frames only when its shape is the shape of
\* the frame matrix (rows x 257).
C6_MaskShapeValidated ==
  (applied # NotApplied) => (applied.shape = <<applied.rows, NFREQS>>)

\* C7: once a chunk of a file has failed, no later chunk is taken or sent to
\* the mask worker, the destination file of that channel is not written and
\* the file's merged output is not written.
C7_AbortOnChunkFailure ==
  (failed_chunk # 0) =>
     /\ pc \in {"except", "raised"}
     /\ i = failed_chunk
     /\ Len(taken) = failed_chunk
     /\ \A c \in 1..Len(calls) : calls[c] <= failed_chunk
     /\ Len(tempoutdir) = ch /\ ch < channels
     /\ src_wav_file \notin output_dir

\* C7 witness: the second chunk of a file failed after the first chunk had
\* been masked, and main_denoising has raised.
C7_Witness ==
  /\ failed_chunk = 2 /\ pc = "raised"
  /\ Len(data_se) = 1 /\ calls = <<1, 2>>
  /\ src_wav_file \notin output_dir /\ tempoutdir = <<>>

\* C8: whenever the worker process has finished while the caller waits in
\* q.get(), the call can go on (the queue holds the outcome to take).
C8_CallCompletes ==
  (pc = "get" /\ p \in 1..Len(workers) /\ workers[p].state = "exited") =>
     ENABLED WrapperGet

\* C9: the written waveform is the chunk outputs, cast to int16, one after
\* the other in chunk order; it has as many samples as the chunks together,
\* which is the sample count of the peak-normalized input.
C9_Concatenation ==
  Written =>
    LET out == tempoutdir[ch]
    IN /\ Len(data_se) = total_chunks
       /\ Len(out) = Len(wav_data)
       /\ \A j \in 1..total_chunks :
            /\ Len(data_se[j]) = ChunkLen(j)
            /\ \A k \in 1..ChunkLen(j) :
                 out[taken[j][1] + k] = ToInt16(data_se[j][k])

\* C9 witness: a written file of three chunks, two masked and one passed
\* through.
C9_Witness ==
  /\ Written /\ total_chunks = 3 /\ Len(calls) = 2
  /\ Len(tempoutdir[ch]) = 513

\* C10 as stated: decode_model is invoked exactly once for every chunk of
\* the file.
C10_AsStated ==
  LoopDone => (calls = [j \in 1..total_chunks |-> j])

\* C10 amended: at most one worker process exists at any time, a worker is
\* started only when every earlier one has been joined, and decode_model is
\* invoked, each time in a process of its own, exactly once for every chunk
\* of at least 256 samples, in ascending chunk order, and for no other chunk.
C10_Sequential ==
  /\ Cardinality({w \in 1..Len(workers) :
                    workers[w].state \in {"running", "put"}}) <= 1
  /\ \A w \in 1..Len(workers) : (w < Len(workers)) => (workers[w].state = "joined")
  /\ Len(workers) = Len(calls)
  /\ \A c \in 1..Len(calls) :
       /\ calls[c] \in 1..Len(taken)
       /\ ChunkLen(calls[c]) >= 256
       /\ (c > 1) => (calls[c - 1] < calls[c])
  /\ LoopDone =>
       \A j \in 1..total_chunks :
         (ChunkLen(j) >= 256) => (\E c \in 1..Len(calls) : calls[c] = j)

\* C10 witness: a finished loop of three chunks with the first two sent to
\* decode_model, one after the other, and the short last one not.
C10_Witness ==
  /\ LoopDone /\ total_chunks = 3 /\ calls = <<1, 2>>
  /\ Len(workers) = 2
  /\ \A w \in 1..2 : workers[w].state = "joined"

====
